---- MODULE Spec2Model ----
(***************************************************************************)
(* clickhouse-backup: the configuration pipeline (package config:          *)
(* DefaultConfig, LoadConfig, ValidateConfig, GetCompressionFormat) and    *)
(* the Tencent-COS storage adapter (package new_storage: Connect,          *)
(* StatFile, DeleteFile, Walk, GetFileReader, PutFile).                    *)
(*                                                                         *)
(* Go strings that the code only compares are TLA+ strings.  Go strings    *)
(* that the code takes apart (ToUpper, ParseDuration, url.Parse,           *)
(* path.Join, TrimPrefix, the listing's prefix and delimiter) are          *)
(* sequences of one-character strings.                                     *)
(***************************************************************************)
EXTENDS Integers, Sequences, FiniteSets, TLC

VARIABLES
    \* ---- package config ----
    file,       \* the config file on disk: [status, sets, vals]
    env,        \* the process environment: [sets, vals]
    keyPairOk,  \* whether tls.LoadX509KeyPair would load the configured pair
    loaded,     \* the last LoadConfig return: [called, cfgNil, cfg, err, stages]
    \* ---- package new_storage, type COS ----
    Config,     \* c.Config: [RowURL, Timeout, Path]
    client,     \* c.client: "nil" or "live"
    objects,    \* the bucket: the set of keys that hold an object
    created,    \* every key that ever held an object
    failedSince,\* a Connect failed and no Connect succeeded after it
    last        \* the last adapter call and what it returned

vars == <<file, env, keyPairOk, loaded, Config, client, objects, created, failedSince, last>>
cfgVars == <<file, env, keyPairOk, loaded>>
cosVars == <<Config, client, objects, created, failedSince, last>>

(***************************************************************************)
(* Bounds                                                                  *)
(***************************************************************************)
\* how many fields the file and the environment set, together
MaxOverlay == 2
\* how many entries one listing response of the provider carries
MaxKeys == 2

(***************************************************************************)
(* Character strings                                                       *)
(***************************************************************************)
Digits == {"0", "1", "2", "3", "4", "5", "6", "7", "8", "9"}
HexDigits == Digits \cup {"a", "b", "c", "d", "e", "f", "A", "B", "C", "D", "E", "F"}

MinOf(S) == CHOOSE x \in S : \A y \in S : x <= y

HasPrefix(s, p) == Len(s) >= Len(p) /\ SubSeq(s, 1, Len(p)) = p

\* strings.TrimPrefix
TrimPrefix(s, p) == IF HasPrefix(s, p) THEN SubSeq(s, Len(p) + 1, Len(s)) ELSE s

UpperOf ==
    [c \in {"a", "b", "c", "d", "e", "g", "i", "l", "n", "o", "r", "s", "t", "u"} |->
        CASE c = "a" -> "A" [] c = "b" -> "B" [] c = "c" -> "C" [] c = "d" -> "D"
          [] c = "e" -> "E" [] c = "g" -> "G" [] c = "i" -> "I" [] c = "l" -> "L"
          [] c = "n" -> "N" [] c = "o" -> "O" [] c = "r" -> "R" [] c = "s" -> "S"
          [] c = "t" -> "T" [] c = "u" -> "U"]

\* strings.ToUpper, over the letters the storage-class inputs use
ToUpper(s) == [i \in 1..Len(s) |-> IF s[i] \in DOMAIN UpperOf THEN UpperOf[s[i]] ELSE s[i]]

\* the index of the first character at or after i that is not in S (Len(s)+1 if none)
SkipWhile(s, i, S) == MinOf({j \in i..(Len(s) + 1) : j = Len(s) + 1 \/ s[j] \notin S})

\* the index of the first character at or after i that is in S (Len(s)+1 if none)
SkipUntil(s, i, S) == MinOf({j \in i..(Len(s) + 1) : j = Len(s) + 1 \/ s[j] \in S})

(***************************************************************************)
(* time.ParseDuration: an optional sign, then one or more groups of a      *)
(* decimal number and a unit; "0" alone is zero.                           *)
(***************************************************************************)
unitMap == {<<"n", "s">>, <<"u", "s">>, <<"m", "s">>, <<"s">>, <<"m">>, <<"h">>}

RECURSIVE DurationGroups(_, _)
DurationGroups(s, i) ==
    IF i > Len(s) THEN TRUE
    ELSE IF s[i] \notin (Digits \cup {"."}) THEN FALSE
    ELSE LET j    == SkipWhile(s, i, Digits)
             dot  == j <= Len(s) /\ s[j] = "."
             k    == IF dot THEN SkipWhile(s, j + 1, Digits) ELSE j
             pre  == j > i
             post == dot /\ k > j + 1
             u    == SkipUntil(s, k, Digits \cup {"."})
             unit == SubSeq(s, k, u - 1)
         IN  /\ pre \/ post
             /\ unit \in unitMap
             /\ DurationGroups(s, u)

ParseDurationOk(text) ==
    LET s == IF text # <<>> /\ text[1] \in {"-", "+"} THEN Tail(text) ELSE text
    IN  IF s = <<"0">> THEN TRUE
        ELSE IF s = <<>> THEN FALSE
        ELSE DurationGroups(s, 1)

(***************************************************************************)
(* package config                                                          *)
(***************************************************************************)
\* ArchiveExtensions - list of available compression formats and extensions
ArchiveExtensions ==
    [tar |-> "tar", lz4 |-> "tar.lz4", bzip2 |-> "tar.bz2", gzip |-> "tar.gz",
     sz |-> "tar.sz", xz |-> "tar.xz"]

\* the fields of Config the pipeline reads, by their Go names
FormatFields ==
    {"S3.CompressionFormat", "GCS.CompressionFormat", "COS.CompressionFormat",
     "FTP.CompressionFormat", "AzureBlob.CompressionFormat"}
TimeoutFields == {"ClickHouse.Timeout", "COS.Timeout", "FTP.Timeout"}
Fields ==
    {"General.RemoteStorage", "S3.StorageClass", "API.Secure"}
        \cup FormatFields \cup TimeoutFields

\* s3.StorageClass_Values() of the AWS SDK
StorageClass_Values ==
    { <<"S","T","A","N","D","A","R","D">>,
      <<"R","E","D","U","C","E","D","_","R","E","D","U","N","D","A","N","C","Y">>,
      <<"S","T","A","N","D","A","R","D","_","I","A">>,
      <<"O","N","E","Z","O","N","E","_","I","A">>,
      <<"I","N","T","E","L","L","I","G","E","N","T","_","T","I","E","R","I","N","G">>,
      <<"G","L","A","C","I","E","R">>,
      <<"D","E","E","P","_","A","R","C","H","I","V","E">>,
      <<"O","U","T","P","O","S","T","S">> }

DefaultConfig ==
    [f \in Fields |->
        CASE f = "General.RemoteStorage" -> "s3"
          [] f \in FormatFields -> "tar"
          [] f = "ClickHouse.Timeout" -> <<"5", "m">>
          [] f \in {"COS.Timeout", "FTP.Timeout"} -> <<"2", "m">>
          [] f = "S3.StorageClass" -> <<"S","T","A","N","D","A","R","D">>
          [] f = "API.Secure" -> FALSE]

\* the values a YAML file may give a field (typed as the field is)
FileValues(f) ==
    CASE f = "General.RemoteStorage" -> {"s3", "gcs", "cos", "ftp", "azblob", "none", "sftp"}
      [] f \in FormatFields -> {"tar", "gzip", "none", "zip", ""}
      [] f \in TimeoutFields ->
            { <<"1","h","3","0","m">>, <<"1",".","5","s">>, <<"0">>, <<"-","1","m">>,
              <<"1","0">>, <<"5","x">>, <<>> }
      [] f = "S3.StorageClass" ->
            { <<"s","t","a","n","d","a","r","d">>, <<"S","T","A","N","D","A","R","D">>,
              <<"G","l","a","c","i","e","r">>, <<"b","o","g","u","s">>, <<>> }
      [] f = "API.Secure" -> BOOLEAN

\* the raw text an environment variable may hold for a field
EnvValues(f) ==
    IF f = "API.Secure" THEN {"true", "1", "false", "yes"} ELSE FileValues(f)

\* strconv.ParseBool, as envconfig applies it to a bool field
ParseBool(raw) ==
    IF raw \in {"1", "t", "T", "TRUE", "true", "True"} THEN [ok |-> TRUE, val |-> TRUE]
    ELSE IF raw \in {"0", "f", "F", "FALSE", "false", "False"} THEN [ok |-> TRUE, val |-> FALSE]
    ELSE [ok |-> FALSE, val |-> FALSE]

\* envconfig's processField: a string field takes the text, a bool field parses it
EnvDecode(f, raw) ==
    IF f = "API.Secure" THEN ParseBool(raw) ELSE [ok |-> TRUE, val |-> raw]

NoErr == [code |-> "nil", msg |-> <<>>]
Err(code, msg) == [code |-> code, msg |-> msg]

\* a GetCompressionFormat that reads the S3 section whatever the selector is
GetCompressionFormatOfS3(cfg) ==
    IF cfg["General.RemoteStorage"] = "none" THEN "none" ELSE cfg["S3.CompressionFormat"]

GetCompressionFormat(cfg) ==
    CASE cfg["General.RemoteStorage"] = "s3" -> cfg["S3.CompressionFormat"]
      [] cfg["General.RemoteStorage"] = "gcs" -> cfg["GCS.CompressionFormat"]
      [] cfg["General.RemoteStorage"] = "cos" -> cfg["COS.CompressionFormat"]
      [] cfg["General.RemoteStorage"] = "ftp" -> cfg["FTP.CompressionFormat"]
      [] cfg["General.RemoteStorage"] = "azblob" -> cfg["AzureBlob.CompressionFormat"]
      [] cfg["General.RemoteStorage"] = "none" -> "none"
      [] OTHER -> "unknown"

\* a storage-class check that compares the value as written
storageClassOkAsWritten(cfg) ==
    \E storageClass \in StorageClass_Values : cfg["S3.StorageClass"] = storageClass

storageClassOk(cfg) ==
    \E storageClass \in StorageClass_Values : ToUpper(cfg["S3.StorageClass"]) = storageClass

\* kp: whether tls.LoadX509KeyPair loads the configured certificate and key
ValidateConfig(cfg, kp) ==
    IF /\ GetCompressionFormat(cfg) # "none"
       /\ GetCompressionFormat(cfg) \notin DOMAIN ArchiveExtensions
    THEN Err("format", <<"'", GetCompressionFormat(cfg), "' is unsupported compression format">>)
    ELSE IF ~ParseDurationOk(cfg["ClickHouse.Timeout"])
    THEN Err("duration", <<"time: invalid duration ">> \o cfg["ClickHouse.Timeout"])
    ELSE IF ~ParseDurationOk(cfg["COS.Timeout"])
    THEN Err("duration", <<"time: invalid duration ">> \o cfg["COS.Timeout"])
    ELSE IF ~ParseDurationOk(cfg["FTP.Timeout"])
    THEN Err("duration", <<"time: invalid duration ">> \o cfg["FTP.Timeout"])
    ELSE IF ~storageClassOk(cfg)
    THEN Err("storage_class",
             <<"'">> \o cfg["S3.StorageClass"] \o <<"' is bad S3_STORAGE_CLASS, select one of: ">>)
    ELSE IF cfg["API.Secure"] /\ ~kp
    THEN Err("key_pair", <<"tls: failed to load key pair">>)
    ELSE NoErr

\* yaml.Unmarshal into the defaults: a field the file sets takes the file's value
FileOverlay(cfg, f) ==
    [x \in Fields |-> IF x \in f.sets THEN f.vals[x] ELSE cfg[x]]

\* an environment overlay that fills only the fields still at their default
EnvOverlayOnDefaultsOnly(cfg, e) ==
    [x \in Fields |->
        IF x \in e.sets /\ cfg[x] = DefaultConfig[x] THEN EnvDecode(x, e.vals[x]).val ELSE cfg[x]]

\* envconfig.Process: a field whose variable is set takes the decoded value
EnvOverlay(cfg, e) ==
    [x \in Fields |-> IF x \in e.sets THEN EnvDecode(x, e.vals[x]).val ELSE cfg[x]]

EnvOk(e) == \A x \in e.sets : EnvDecode(x, e.vals[x]).ok

Returned(cfgNil, cfg, err, stages) ==
    [called |-> TRUE, cfgNil |-> cfgNil, cfg |-> cfg, err |-> err, stages |-> stages]

\* LoadConfig - load config from file
LoadConfig(f, e, kp) ==
    LET cfg0 == DefaultConfig
        cfg1 == IF f.status = "ok" THEN FileOverlay(cfg0, f) ELSE cfg0
        cfg2 == EnvOverlay(cfg1, e)
    IN  IF f.status = "unreadable"
        THEN Returned(TRUE, DefaultConfig, Err("open", <<"can't open config file: ">>),
                      <<"defaults", "file">>)
        ELSE IF f.status = "malformed"
        THEN Returned(TRUE, DefaultConfig, Err("parse", <<"can't parse config file: ">>),
                      <<"defaults", "file">>)
        ELSE IF ~EnvOk(e)
        THEN Returned(TRUE, DefaultConfig, Err("env", <<"envconfig.Process: ">>),
                      <<"defaults", "file", "env">>)
        ELSE Returned(FALSE, cfg2, ValidateConfig(cfg2, kp),
                      <<"defaults", "file", "env", "validate">>)

NotLoaded ==
    [called |-> FALSE, cfgNil |-> TRUE, cfg |-> DefaultConfig, err |-> NoErr, stages |-> <<>>]

NoFile(status) == [status |-> status, sets |-> {}, vals |-> DefaultConfig]
NoEnv == [sets |-> {}, vals |-> [f \in Fields |-> IF f = "API.Secure" THEN "" ELSE DefaultConfig[f]]]

Budget == Cardinality(file.sets) + Cardinality(env.sets) < MaxOverlay

\* the operator writes one more field into the config file
WriteFileField ==
    /\ ~loaded.called /\ file.status = "ok" /\ Budget
    /\ \E f \in Fields \ file.sets : \E v \in FileValues(f) :
          file' = [file EXCEPT !.sets = @ \cup {f}, !.vals[f] = v]
    /\ UNCHANGED <<env, keyPairOk, loaded>>
    /\ UNCHANGED cosVars

\* the operator exports one more environment variable
SetEnv ==
    /\ ~loaded.called /\ Budget
    /\ \E f \in Fields \ env.sets : \E v \in EnvValues(f) :
          env' = [env EXCEPT !.sets = @ \cup {f}, !.vals[f] = v]
    /\ UNCHANGED <<file, keyPairOk, loaded>>
    /\ UNCHANGED cosVars

\* the process calls LoadConfig(configLocation)
CallLoadConfig ==
    /\ ~loaded.called
    /\ loaded' = LoadConfig(file, env, keyPairOk)
    /\ UNCHANGED <<file, env, keyPairOk>>
    /\ UNCHANGED cosVars

InitConfigSide ==
    /\ file \in {NoFile(s) : s \in {"missing", "unreadable", "malformed", "ok"}}
    /\ env = NoEnv
    /\ keyPairOk \in BOOLEAN
    /\ loaded = NotLoaded

(***************************************************************************)
(* package new_storage: paths                                              *)
(***************************************************************************)
\* path.Clean over names without "." elements: runs of "/" collapse and a
\* trailing "/" goes, except in the root "/"; the empty path cleans to "."
RECURSIVE CleanFrom(_, _, _)
CleanFrom(s, i, out) ==
    IF i > Len(s) THEN out
    ELSE IF s[i] = "/" /\ out # <<>> /\ out[Len(out)] = "/" THEN CleanFrom(s, i + 1, out)
    ELSE CleanFrom(s, i + 1, Append(out, s[i]))

Clean(s) ==
    LET c == CleanFrom(s, 1, <<>>)
    IN  IF s = <<>> THEN <<".">>
        ELSE IF Len(c) > 1 /\ c[Len(c)] = "/" THEN SubSeq(c, 1, Len(c) - 1)
        ELSE c

\* path.Join(a, b): empty elements are ignored, the result is cleaned, and
\* joining nothing but empty elements gives the empty string
Join(a, b) ==
    IF a = <<>> /\ b = <<>> THEN <<>>
    ELSE IF a = <<>> THEN Clean(b)
    ELSE IF b = <<>> THEN Clean(a)
    ELSE Clean(a \o <<"/">> \o b)

\* byte order of the characters keys are made of
CharOrd(c) ==
    CASE c = "/" -> 47 [] c = "a" -> 97 [] c = "b" -> 98 [] c = "c" -> 99
      [] c = "f" -> 102 [] c = "g" -> 103 [] c = "h" -> 104 [] c = "p" -> 112

\* s sorts before t, or is t
RECURSIVE LexLeq(_, _)
LexLeq(s, t) ==
    IF s = <<>> THEN TRUE
    ELSE IF t = <<>> THEN FALSE
    ELSE IF s[1] = t[1] THEN LexLeq(Tail(s), Tail(t))
    ELSE CharOrd(s[1]) < CharOrd(t[1])

RECURSIVE SortedByName(_)
SortedByName(S) ==
    IF S = {} THEN <<>>
    ELSE LET m == CHOOSE x \in S : \A y \in S : LexLeq(x.name, y.name)
         IN  <<m>> \o SortedByName(S \ {m})

(***************************************************************************)
(* The provider, as the adapter's calls see it.  fault is what goes wrong  *)
(* with one request besides the object's absence: "none", "AccessDenied"   *)
(* (the service answers with another error code) or "transport" (no        *)
(* answer).                                                                *)
(***************************************************************************)
Faults == {"none", "AccessDenied", "transport"}

Nil == [type |-> "nil", code |-> ""]
ErrNotFound == [type |-> "sentinel", code |-> "ErrNotFound"]
ErrorResponse(code) == [type |-> "cos.ErrorResponse", code |-> code]
TransportError == [type |-> "net.Error", code |-> "i/o timeout"]
Panic == [type |-> "panic", code |-> "nil pointer dereference"]
InvalidURL == [type |-> "url.Error", code |-> "invalid URL escape"]
InvalidDuration == [type |-> "time", code |-> "invalid duration"]

FaultError(fault) == IF fault = "transport" THEN TransportError ELSE ErrorResponse(fault)

\* c.client.Bucket.Head
BucketHead(fault) == IF fault = "none" THEN Nil ELSE FaultError(fault)

\* c.client.Object.Get: the service answers NoSuchKey for a key without object
ObjectGet(bucket, name, fault) ==
    IF fault # "none" THEN [err |-> FaultError(fault), size |-> 0]
    ELSE IF name \notin DOMAIN bucket THEN [err |-> ErrorResponse("NoSuchKey"), size |-> 0]
    ELSE [err |-> Nil, size |-> bucket[name]]

\* c.client.Object.Delete: the service answers 204 whether or not the key
\* held an object
ObjectDelete(bucket, name, fault) ==
    IF fault # "none" THEN [err |-> FaultError(fault), bucket |-> bucket]
    ELSE [err |-> Nil, bucket |-> [k \in DOMAIN bucket \ {name} |-> bucket[k]]]

\* c.client.Object.Put
ObjectPut(bucket, name, size, fault) ==
    IF fault # "none" THEN [err |-> FaultError(fault), bucket |-> bucket]
    ELSE [err |-> Nil,
          bucket |-> [k \in DOMAIN bucket \cup {name} |-> IF k = name THEN size ELSE bucket[k]]]

\* one entry of a listing: a key below the prefix, rolled up to the first
\* delimiter after the prefix when a delimiter is given
ListEntry(bucket, key, prefix, delimiter) ==
    LET rest == SubSeq(key, Len(prefix) + 1, Len(key))
        d    == SkipUntil(rest, 1, {"/"})
    IN  IF delimiter # <<>> /\ d <= Len(rest)
        THEN [dir |-> TRUE, name |-> prefix \o SubSeq(rest, 1, d), size |-> 0]
        ELSE [dir |-> FALSE, name |-> key, size |-> bucket[key]]

\* c.client.Bucket.Get without a marker: the first MaxKeys entries in key
\* order, common prefixes and contents apart, and whether more remain
BucketGet(bucket, prefix, delimiter, fault) ==
    LET entries == {ListEntry(bucket, k, prefix, delimiter) :
                        k \in {x \in DOMAIN bucket : HasPrefix(x, prefix)}}
        sorted  == SortedByName(entries)
        page    == SubSeq(sorted, 1, IF Len(sorted) < MaxKeys THEN Len(sorted) ELSE MaxKeys)
        IsDir(e) == e.dir
        IsObj(e) == ~e.dir
    IN  IF fault # "none"
        THEN [err |-> FaultError(fault), CommonPrefixes |-> <<>>, Contents |-> <<>>,
              IsTruncated |-> FALSE]
        ELSE [err |-> Nil,
              CommonPrefixes |-> SelectSeq(page, IsDir),
              Contents |-> SelectSeq(page, IsObj),
              IsTruncated |-> Len(sorted) > MaxKeys]

\* the layouts parseTime tries, in order
timeFormats == <<"Mon, 02 Jan 2006 15:04:05 GMT", "RFC850", "ANSIC", "RFC3339">>

\* parseTime: the first layout that parses the text wins; none leaves the
\* zero time.  A timestamp is modelled by the layout it is written in.
parseTime(layout) == \E i \in 1..Len(timeFormats) : timeFormats[i] = layout

\* the layouts the service writes: the Date header and a listing's LastModified
DateHeaderLayout == "Mon, 02 Jan 2006 15:04:05 GMT"
ListingLayout == "RFC3339"

\* url.Parse fails on a "%" that two hex digits do not follow
UrlParseOk(u) ==
    \A i \in 1..Len(u) :
        u[i] = "%" => i + 2 <= Len(u) /\ u[i + 1] \in HexDigits /\ u[i + 2] \in HexDigits

(***************************************************************************)
(* package new_storage: type COS.  c is the receiver: [client, Config].    *)
(* A call on a nil client dereferences a nil pointer.                      *)
(***************************************************************************)
NoRemoteFile == [present |-> FALSE, name |-> <<>>, size |-> 0, hasTime |-> FALSE, dir |-> FALSE]
cosFile(name, size, hasTime, dir) ==
    [present |-> TRUE, name |-> name, size |-> size, hasTime |-> hasTime, dir |-> dir]

\* whether a request on this receiver gets an answer from the service
Reaches(c, fault) == c.client = "live" /\ fault # "transport"

\* Connect - connect to cos: [err, client, probes]
Connect(c, fault) ==
    IF ~UrlParseOk(c.Config.RowURL)
    THEN [err |-> InvalidURL, client |-> c.client, probes |-> 0]
    ELSE IF ~ParseDurationOk(c.Config.Timeout)
    THEN [err |-> InvalidDuration, client |-> c.client, probes |-> 0]
    ELSE [err |-> BucketHead(fault), client |-> "live", probes |-> 1]

\* a StatFile that hands the provider's error through untranslated
StatFileUntranslated(c, bucket, key, fault) ==
    LET name == Join(c.Config.Path, key)
        resp == ObjectGet(bucket, name, fault)
    IN  IF c.client = "nil" THEN [err |-> Panic, file |-> NoRemoteFile]
        ELSE IF resp.err # Nil THEN [err |-> resp.err, file |-> NoRemoteFile]
        ELSE [err |-> Nil,
              file |-> cosFile(<<"/">> \o name, resp.size, parseTime(DateHeaderLayout), FALSE)]

\* StatFile: [err, file]
StatFile(c, bucket, key, fault) ==
    LET name == Join(c.Config.Path, key)
        resp == ObjectGet(bucket, name, fault)
    IN  IF c.client = "nil" THEN [err |-> Panic, file |-> NoRemoteFile]
        ELSE IF resp.err # Nil
        THEN IF resp.err.type = "cos.ErrorResponse" /\ resp.err.code = "NoSuchKey"
             THEN [err |-> ErrNotFound, file |-> NoRemoteFile]
             ELSE [err |-> resp.err, file |-> NoRemoteFile]
        ELSE [err |-> Nil,
              file |-> cosFile(<<"/">> \o name, resp.size, parseTime(DateHeaderLayout), FALSE)]

\* DeleteFile: [err, bucket]
DeleteFile(c, bucket, key, fault) ==
    IF c.client = "nil" THEN [err |-> Panic, bucket |-> bucket]
    ELSE ObjectDelete(bucket, Join(c.Config.Path, key), fault)

\* the entries Walk hands to process, in the order it hands them
WalkEntries(res, prefix) ==
    [i \in 1..Len(res.CommonPrefixes) |->
        cosFile(TrimPrefix(res.CommonPrefixes[i].name, prefix), 0, FALSE, TRUE)]
    \o
    [i \in 1..Len(res.Contents) |->
        cosFile(TrimPrefix(res.Contents[i].name, prefix), res.Contents[i].size,
                parseTime(ListingLayout), FALSE)]

\* Walk: [err, visited, truncated].  failAt is the number of the call to
\* process that returns an error (0: none does); Walk drops what process
\* returns.
Walk(c, bucket, cosPath, recursuve, failAt, fault) ==
    LET prefix    == Join(c.Config.Path, cosPath)
        delimiter == IF ~recursuve THEN <<"/">> ELSE <<>>
        res       == BucketGet(bucket, prefix, delimiter, fault)
    IN  IF c.client = "nil" THEN [err |-> Panic, visited |-> <<>>, truncated |-> FALSE]
        ELSE IF res.err # Nil THEN [err |-> res.err, visited |-> <<>>, truncated |-> FALSE]
        ELSE [err |-> Nil, visited |-> WalkEntries(res, prefix), truncated |-> res.IsTruncated]

\* GetFileReader: [err, stream]
GetFileReader(c, bucket, key, fault) ==
    LET resp == ObjectGet(bucket, Join(c.Config.Path, key), fault)
    IN  IF c.client = "nil" THEN [err |-> Panic, stream |-> FALSE]
        ELSE IF resp.err # Nil THEN [err |-> resp.err, stream |-> FALSE]
        ELSE [err |-> Nil, stream |-> TRUE]

\* PutFile: [err, bucket]
PutFile(c, bucket, key, r, fault) ==
    IF c.client = "nil" THEN [err |-> Panic, bucket |-> bucket]
    ELSE ObjectPut(bucket, Join(c.Config.Path, key), Len(r), fault)

(***************************************************************************)
(* The adapter's callers                                                   *)
(***************************************************************************)
RowURLs == { <<"h", ":", "/", "/", "b">>, <<"h", ":", "/", "/", "%", "z">> }
Timeouts == { <<"2", "m">>, <<"2">> }
Paths == { <<>>, <<"p">> }
Keys == { <<"a", "/", "b", "/", "f">>, <<"a", "/", "c", "/", "g">>, <<"a", "/", "h">> }
WalkPaths == { <<>>, <<"a">>, <<"a", "/">>, <<"a", "/", "b">> }
Streams == { <<"x">>, <<"x", "y">> }

NoCall ==
    [op |-> "none", arg |-> <<>>, recursive |-> FALSE, fault |-> "none", failAt |-> 0,
     err |-> Nil, reached |-> FALSE, probes |-> 0, file |-> NoRemoteFile,
     stream |-> FALSE, visited |-> <<>>, truncated |-> FALSE]

Call(op, arg, fault, err) ==
    [NoCall EXCEPT !.op = op, !.arg = arg, !.fault = fault, !.err = err,
                   !.reached = Reaches([client |-> client, Config |-> Config], fault)]

Self == [client |-> client, Config |-> Config]

CallConnect ==
    \E fault \in Faults :
        LET r == Connect(Self, fault)
        IN  /\ client' = r.client
            /\ failedSince' = (r.err # Nil)
            /\ last' = [NoCall EXCEPT !.op = "Connect", !.fault = fault, !.err = r.err,
                                      !.probes = r.probes,
                                      !.reached = (r.probes > 0 /\ fault # "transport")]
            /\ UNCHANGED <<Config, objects, created>>
            /\ UNCHANGED cfgVars

CallStatFile ==
    \E key \in Keys, fault \in Faults :
        LET r == StatFile(Self, objects, key, fault)
        IN  /\ last' = [Call("StatFile", key, fault, r.err) EXCEPT !.file = r.file]
            /\ UNCHANGED <<Config, client, objects, created, failedSince>>
            /\ UNCHANGED cfgVars

CallDeleteFile ==
    \E key \in Keys, fault \in Faults :
        LET r == DeleteFile(Self, objects, key, fault)
        IN  /\ objects' = r.bucket
            /\ last' = Call("DeleteFile", key, fault, r.err)
            /\ UNCHANGED <<Config, client, created, failedSince>>
            /\ UNCHANGED cfgVars

CallWalk ==
    \E cosPath \in WalkPaths, recursuve \in BOOLEAN, failAt \in 0..MaxKeys, fault \in Faults :
        LET r == Walk(Self, objects, cosPath, recursuve, failAt, fault)
        IN  /\ last' = [Call("Walk", cosPath, fault, r.err) EXCEPT
                            !.recursive = recursuve, !.failAt = failAt,
                            !.visited = r.visited, !.truncated = r.truncated]
            /\ UNCHANGED <<Config, client, objects, created, failedSince>>
            /\ UNCHANGED cfgVars

CallGetFileReader ==
    \E key \in Keys, fault \in Faults :
        LET r == GetFileReader(Self, objects, key, fault)
        IN  /\ last' = [Call("GetFileReader", key, fault, r.err) EXCEPT !.stream = r.stream]
            /\ UNCHANGED <<Config, client, objects, created, failedSince>>
            /\ UNCHANGED cfgVars

CallPutFile ==
    \E key \in Keys, r \in Streams, fault \in Faults :
        LET res == PutFile(Self, objects, key, r, fault)
        IN  /\ objects' = res.bucket
            /\ created' = created \cup DOMAIN res.bucket
            /\ last' = Call("PutFile", key, fault, res.err)
            /\ UNCHANGED <<Config, client, failedSince>>
            /\ UNCHANGED cfgVars

InitCOSSide ==
    /\ Config \in [RowURL : RowURLs, Timeout : Timeouts, Path : Paths]
    /\ client = "nil"
    /\ objects = [k \in {} |-> 0]
    /\ created = {}
    /\ failedSince = FALSE
    /\ last = NoCall

(***************************************************************************)
(* Specifications                                                          *)
(***************************************************************************)
\* the adapter under its callers; the configuration pipeline at rest
Init ==
    /\ InitCOSSide
    /\ file = NoFile("missing") /\ env = NoEnv /\ keyPairOk = FALSE /\ loaded = NotLoaded

Next ==
    \/ CallConnect
    \/ CallStatFile
    \/ CallDeleteFile
    \/ CallWalk
    \/ CallGetFileReader
    \/ CallPutFile

Spec == Init /\ [][Next]_vars

\* the configuration pipeline; the adapter at rest
InitConfig ==
    /\ InitConfigSide
    /\ Config = [RowURL |-> <<>>, Timeout |-> <<"2", "m">>, Path |-> <<>>]
    /\ client = "nil" /\ objects = [k \in {} |-> 0] /\ created = {}
    /\ failedSince = FALSE /\ last = NoCall

NextConfig ==
    \/ WriteFileField
    \/ SetEnv
    \/ CallLoadConfig

SpecConfig == InitConfig /\ [][NextConfig]_vars

(***************************************************************************)
(* Properties of the COS adapter (specification Spec)                      *)
(***************************************************************************)
\* the remote name the last call's key resolves to
LastName == Join(Config.Path, last.arg)

\* the last call was answered by the service, with nothing wrong but what
\* the bucket holds
Answered == last.reached /\ last.fault = "none"

\* C1: StatFile on a key that never held an object returns exactly the
\* ErrNotFound sentinel, and DeleteFile on such a key returns nil or
\* ErrNotFound, whenever the service answers the request, under every
\* configured path prefix.
C1_MissingKeyIsNotFound ==
    /\ (last.op = "StatFile" /\ Answered /\ LastName \notin created)
            => (last.err = ErrNotFound /\ ~last.file.present)
    /\ (last.op = "DeleteFile" /\ Answered /\ LastName \notin created)
            => last.err \in {Nil, ErrNotFound}

C1_Witness ==
    /\ last.op = "StatFile" /\ Answered /\ LastName \notin created
    /\ Config.Path # <<>> /\ DOMAIN objects # {}
    /\ last.err = ErrNotFound

\* the directory a Walk is asked to list, and the keys stored below it
WalkDir == Join(Config.Path, last.arg)
Below(dir) ==
    IF dir = <<>> THEN DOMAIN objects
    ELSE {k \in DOMAIN objects : HasPrefix(k, dir \o <<"/">>)}
Relative(k, dir) == IF dir = <<>> THEN k ELSE SubSeq(k, Len(dir) + 2, Len(k))

\* what the contract lets a Walk visit: the name relative to the directory,
\* and whether it is a directory-like entry
ExpectedEntries(dir, recursive) ==
    { LET rel == Relative(k, dir)
          d   == SkipUntil(rel, 1, {"/"})
      IN  IF ~recursive /\ d <= Len(rel)
          THEN [name |-> SubSeq(rel, 1, d), dir |-> TRUE]
          ELSE [name |-> rel, dir |-> FALSE]
      : k \in Below(dir) }

VisitedEntries == {[name |-> last.visited[i].name, dir |-> last.visited[i].dir] :
                        i \in 1..Len(last.visited)}

\* C2: a Walk whose listing fits one response visits exactly once each
\* immediate sub-directory (name only) and each object directly under the
\* prefix when not recursive, exactly once each object and no directory when
\* recursive, every name relative to the prefix without a leading slash.
C2_WalkVisitsRelativeEntries ==
    (last.op = "Walk" /\ last.err = Nil /\ ~last.truncated)
        => /\ VisitedEntries = ExpectedEntries(WalkDir, last.recursive)
           /\ Len(last.visited) = Cardinality(ExpectedEntries(WalkDir, last.recursive))

\* C3: when the visitor fails on an entry, Walk stops at that entry and
\* returns a non-nil error.
C3_VisitorErrorAbortsWalk ==
    (last.op = "Walk" /\ last.failAt \in 1..Len(last.visited))
        => (last.err # Nil /\ Len(last.visited) = last.failAt)

\* C8: GetFileReader returns ErrNotFound and no stream for a missing object,
\* the provider's own error and no stream for any other provider failure,
\* and a stream only together with a nil error.
C8_GetFileReaderErrors ==
    last.op = "GetFileReader" =>
        /\ (Answered /\ LastName \notin DOMAIN objects)
                => (last.err = ErrNotFound /\ ~last.stream)
        /\ (client = "live" /\ last.fault # "none")
                => (last.err = FaultError(last.fault) /\ ~last.stream)
        /\ last.stream => last.err = Nil

\* C9: a recursive Walk that returns nil has visited every object stored
\* under the prefix exactly once, with its size and modification time,
\* however many objects there are.
C9_RecursiveWalkVisitsAll ==
    (last.op = "Walk" /\ last.recursive /\ last.err = Nil)
        => \A k \in Below(WalkDir) :
              Cardinality({i \in 1..Len(last.visited) :
                              /\ Join(WalkDir, last.visited[i].name) = k
                              /\ last.visited[i].size = objects[k]
                              /\ last.visited[i].hasTime}) = 1

\* C10: a failing Connect returns its failure after at most one probe, and
\* while no later Connect has succeeded the adapter holds no live client and
\* no other call reaches the provider or succeeds.
C10_FailedConnectLeavesUnusable ==
    /\ last.op = "Connect" => (last.probes <= 1 /\ (failedSince <=> last.err # Nil))
    /\ failedSince =>
          /\ client = "nil"
          /\ last.op \notin {"Connect", "none"} => (~last.reached /\ last.err # Nil)

(***************************************************************************)
(* Properties of the configuration pipeline (specification SpecConfig)     *)
(***************************************************************************)
\* C4: LoadConfig returns a configuration only when every stage, validation
\* included, succeeded; with a non-nil error it returns no configuration.
C4_ErrorMeansNoConfig ==
    loaded.called =>
        /\ loaded.err # NoErr => loaded.cfgNil
        /\ ~loaded.cfgNil => loaded.stages = <<"defaults", "file", "env", "validate">>
        /\ loaded.cfgNil => loaded.err # NoErr

\* the section whose format each backend selector makes the active one
FormatFieldOf ==
    [s3 |-> "S3.CompressionFormat", gcs |-> "GCS.CompressionFormat",
     cos |-> "COS.CompressionFormat", ftp |-> "FTP.CompressionFormat",
     azblob |-> "AzureBlob.CompressionFormat"]

\* the format of the active backend, as the contract words it
ActiveFormat(cfg) ==
    LET selector == cfg["General.RemoteStorage"]
    IN  IF selector \in DOMAIN FormatFieldOf THEN cfg[FormatFieldOf[selector]]
        ELSE IF selector = "none" THEN "none"
        ELSE "unknown"

KnownFormats == {"none", "tar", "lz4", "bzip2", "gzip", "sz", "xz"}

\* the configuration validation ran on
Validated == loaded.called /\ "validate" \in {loaded.stages[i] : i \in 1..Len(loaded.stages)}

\* C5: validation rejects, with a message naming the format, every
\* configuration whose active backend's format is neither "none" nor a key
\* of ArchiveExtensions, and the format check rejects no configuration whose
\* active format is one of those, whatever the inactive sections hold.
C5_ActiveFormatChecked ==
    Validated =>
        /\ ActiveFormat(loaded.cfg) \notin KnownFormats
              => /\ loaded.err.code = "format"
                 /\ \E i \in 1..Len(loaded.err.msg) : loaded.err.msg[i] = ActiveFormat(loaded.cfg)
        /\ ActiveFormat(loaded.cfg) \in KnownFormats => loaded.err.code # "format"

C5_Witness ==
    /\ Validated
    /\ loaded.cfg["General.RemoteStorage"] = "gcs"
    /\ loaded.cfg["GCS.CompressionFormat"] = "zip"
    /\ loaded.cfg["S3.CompressionFormat"] = "tar"
    /\ loaded.err.code = "format"

\* the storage classes of the input domain the fixed set holds when upper-cased
AcceptedClasses ==
    { <<"s","t","a","n","d","a","r","d">>, <<"S","T","A","N","D","A","R","D">>,
      <<"G","l","a","c","i","e","r">> }

\* every check but the storage class passes
OtherChecksPass ==
    /\ ActiveFormat(loaded.cfg) \in KnownFormats
    /\ \A f \in TimeoutFields : ParseDurationOk(loaded.cfg[f])
    /\ loaded.cfg["API.Secure"] => keyPairOk

\* C6: a configuration that passes the other checks is accepted if and only
\* if its upper-cased S3.StorageClass is one of the valid storage classes,
\* whichever backend is active: "standard" and "STANDARD" pass, "bogus" and
\* the empty string do not.
C6_StorageClassChecked ==
    (Validated /\ OtherChecksPass) =>
        /\ loaded.err = NoErr <=> ToUpper(loaded.cfg["S3.StorageClass"]) \in StorageClass_Values
        /\ loaded.err = NoErr <=> loaded.cfg["S3.StorageClass"] \in AcceptedClasses
        /\ loaded.err # NoErr => loaded.err.code = "storage_class"

C6_Witness ==
    /\ Validated /\ OtherChecksPass
    /\ loaded.cfg["General.RemoteStorage"] = "gcs"
    /\ loaded.cfg["S3.StorageClass"] = <<"s","t","a","n","d","a","r","d">>
    /\ loaded.err = NoErr

\* what an environment variable's text means for its field
EnvMeaning(f) ==
    IF f = "API.Secure" THEN env.vals[f] \in {"true", "1"} ELSE env.vals[f]

\* C7: every field of the configuration LoadConfig produces holds the
\* environment's value if the variable is set, else the file's value if the
\* file sets the field, else the default; a missing file overlays nothing.
C7_OverlayPrecedence ==
    /\ (loaded.called /\ ~loaded.cfgNil) =>
          \A f \in Fields :
              loaded.cfg[f] =
                  IF f \in env.sets THEN EnvMeaning(f)
                  ELSE IF file.status = "ok" /\ f \in file.sets THEN file.vals[f]
                  ELSE DefaultConfig[f]
    /\ (loaded.called /\ file.status = "missing") => loaded.err.code \notin {"open", "parse"}
    /\ (loaded.called /\ file.status \in {"missing", "ok"}
            /\ \A f \in env.sets : f = "API.Secure" => env.vals[f] \in {"true", "1", "false"})
          => Validated

C7_Witness ==
    /\ loaded.called /\ ~loaded.cfgNil
    /\ \E f \in file.sets \cap env.sets :
          /\ EnvMeaning(f) # file.vals[f]
          /\ loaded.cfg[f] = EnvMeaning(f)
          /\ file.vals[f] # DefaultConfig[f]

====
